---- MODULE Spec2Model ----
(***************************************************************************)
(* A model of Finance/python-black-scholes-merton (the notebook's code     *)
(* cells): the market model bsm, the Monte Carlo simulator built on        *)
(* np.random.standard_normal, the option value estimator and the           *)
(* closed-form evaluator.                                                  *)
(*                                                                         *)
(* Numbers.  A Python float is modelled by an exact rational [n, d] with   *)
(* d > 0 in lowest terms; d = 0 is NaN.  A value that involves np.exp is   *)
(* a set of terms c * e^x with rational c # 0 and rational x: the empty    *)
(* set is 0, and bsm returns sets of one term.  Since e^x is irrational    *)
(* for every rational x # 0, two such values denote the same real exactly  *)
(* when they are the same set, so equality in the model is equality of     *)
(* reals.  Rounding of IEEE doubles is not modelled; the underflow of      *)
(* np.exp to 0.0 is.                                                       *)
(***************************************************************************)
EXTENDS Integers, Sequences, FiniteSets

(***************************************************************************)
(* Bounds of the model.                                                    *)
(***************************************************************************)
\* the largest sample count n, and the longest array of draws
MaxN == 2
\* the number of states of the generator before it repeats
RngPeriod == 4
\* the largest seed given to the generator
MaxSeed == 1

(***************************************************************************)
(* Exact rationals (Python floats without rounding).                       *)
(***************************************************************************)
Abs(i) == IF i < 0 THEN -i ELSE i

RECURSIVE Gcd(_, _)
Gcd(a, b) == IF b = 0 THEN a ELSE Gcd(b, a % b)

\* the rational n/d in lowest terms with a positive denominator
Q(n, d) ==
  LET g == Gcd(Abs(n), Abs(d))
      s == IF d < 0 THEN -1 ELSE 1
  IN  [n |-> s * (n \div g), d |-> s * (d \div g)]

NaN == [n |-> 0, d |-> 0]
IsNaN(a) == a.d = 0
Zero == [n |-> 0, d |-> 1]
One == [n |-> 1, d |-> 1]
Half == [n |-> 1, d |-> 2]

RAdd(a, b) ==
  IF IsNaN(a) \/ IsNaN(b) THEN NaN ELSE Q(a.n * b.d + b.n * a.d, a.d * b.d)
RNeg(a) == [n |-> -a.n, d |-> a.d]
RSub(a, b) == RAdd(a, RNeg(b))
RMul(a, b) ==
  IF IsNaN(a) \/ IsNaN(b) THEN NaN ELSE Q(a.n * b.n, a.d * b.d)
\* float division as numpy evaluates it: x/0 is not finite
RDiv(a, b) ==
  IF IsNaN(a) \/ IsNaN(b) \/ b.n = 0 THEN NaN ELSE Q(a.n * b.d, a.d * b.n)
\* a comparison with NaN is False, as in IEEE arithmetic
RLt(a, b) == ~IsNaN(a) /\ ~IsNaN(b) /\ a.n * b.d < b.n * a.d

\* the exact root of a perfect square
ISqrt(i) == CHOOSE q \in 0..i : q * q = i
\* a root that is not defined at 0
RSqrt_domain(a) ==
  IF IsNaN(a) \/ a.n <= 0 THEN NaN ELSE [n |-> ISqrt(a.n), d |-> ISqrt(a.d)]
\* np.sqrt: NaN for a negative argument (with a RuntimeWarning, no exception)
RSqrt(a) ==
  IF IsNaN(a) \/ a.n < 0 THEN NaN ELSE [n |-> ISqrt(a.n), d |-> ISqrt(a.d)]

(***************************************************************************)
(* Values with exponentials: 0, or c * e^x.                                *)
(***************************************************************************)
XNaN == {[c |-> NaN, e |-> Zero]}
XIsNaN(a) == \E m \in a : IsNaN(m.c)
\* np.exp of a double underflows: below about -745.13 the result is 0.0
ExpUnderflow == Q(-746, 1)
\* np.exp of a float.  Its overflow to inf, above about 709.78, is not
\* modelled: no input of the model reaches it.
XExp(y) ==
  IF IsNaN(y) THEN XNaN
  ELSE IF RLt(y, ExpUnderflow) THEN {}
  ELSE {[c |-> One, e |-> y]}
\* float * value
XScale(q, a) ==
  IF IsNaN(q) \/ XIsNaN(a) THEN XNaN
  ELSE IF q.n = 0 THEN {}
  ELSE {[c |-> RMul(q, m.c), e |-> m.e] : m \in a}

(***************************************************************************)
(* numpy values: a scalar, or a one-dimensional array.  An operation on a  *)
(* scalar and an array broadcasts the scalar and keeps the array's shape.  *)
(***************************************************************************)
Scalar(x) == [shape |-> "scalar", v |-> <<x>>]
Array(s) == [shape |-> "array", v |-> s]
\* float * ndarray of floats
NpMul(q, a) == [shape |-> a.shape, v |-> [i \in 1..Len(a.v) |-> RMul(q, a.v[i])]]
\* float + ndarray of floats
NpAdd(q, a) == [shape |-> a.shape, v |-> [i \in 1..Len(a.v) |-> RAdd(q, a.v[i])]]
\* np.exp, element by element
NpExp(a) == [shape |-> a.shape, v |-> [i \in 1..Len(a.v) |-> XExp(a.v[i])]]
\* float * ndarray of values
NpScale(q, a) == [shape |-> a.shape, v |-> [i \in 1..Len(a.v) |-> XScale(q, a.v[i])]]

(***************************************************************************)
(* The market model.                                                       *)
(***************************************************************************)
\* the first cell's bsm, applied there to one draw
bsm_scalar(s_0, r, sigma, t, z) ==
  NpScale(s_0, NpExp(NpAdd(RMul(RSub(r, RMul(RMul(Half, sigma), sigma)), t),
                           NpMul(RMul(sigma, RSqrt(t)), z))))

\* np.cumsum: the running sums of an array
NpCumsum(a) ==
  LET F[i \in 0..Len(a.v)] == IF i = 0 THEN Zero ELSE RAdd(F[i - 1], a.v[i])
  IN  [shape |-> a.shape, v |-> [i \in 1..Len(a.v) |-> F[i]]]

\* a bsm whose drift adds the variance term instead of subtracting it
bsm_drift_sign(s_0, r, sigma, t, z) ==
  NpScale(s_0, NpExp(NpAdd(RMul(RAdd(r, RMul(RMul(Half, sigma), sigma)), t),
                           NpMul(RMul(sigma, RSqrt(t)), z))))

\* a bsm that treats z as the increments of one path and accumulates them
bsm_cumsum(s_0, r, sigma, t, z) ==
  NpScale(s_0, NpExp(NpAdd(RMul(RSub(r, RMul(RMul(Half, sigma), sigma)), t),
                           NpMul(RMul(sigma, RSqrt(t)), NpCumsum(z)))))

\* the second cell's bsm, which replaces the first, applied to arrays of draws
bsm(s_0, r, sigma, t, z) ==
  NpScale(s_0, NpExp(NpAdd(RMul(RSub(r, RMul(RMul(Half, sigma), sigma)), t),
                           NpMul(RMul(sigma, RSqrt(t)), z))))

(***************************************************************************)
(* Inputs.  Maturities are squares of rationals, so that np.sqrt(t) is     *)
(* exact; every parameter has a zero and a negative value beside the       *)
(* notebook's own (100, 0.03, 0.4, 3/12); one volatility is so large that  *)
(* np.exp underflows.                                                      *)
(***************************************************************************)
SpotSet == {Q(100, 1), Q(0, 1), Q(-100, 1)}
RateSet == {Q(3, 100), Q(-1, 100)}
SigmaSet == {Q(2, 5), Q(0, 1), Q(-2, 5), Q(40, 1)}
MaturitySet == {Q(1, 4), Q(1, 1), Q(0, 1), Q(-1, 4)}
Market(s_0, r, sigma, t) == [s_0 |-> s_0, r |-> r, sigma |-> sigma, t |-> t]
\* every combination of the values above
MarketSet ==
  {Market(s_0, r, sigma, t) :
     s_0 \in SpotSet, r \in RateSet, sigma \in SigmaSet, t \in MaturitySet}
\* the notebook's own parameters, another valid set, and an invalid one
FewMarkets ==
  {Market(Q(100, 1), Q(3, 100), Q(2, 5), Q(1, 4)),
   Market(Q(100, 1), Q(-1, 100), Q(2, 5), Q(1, 1)),
   Market(Q(100, 1), Q(3, 100), Q(-2, 5), Q(1, 4))}
\* the notebook's parameters with no volatility, and with no time to maturity
FlatMarkets ==
  {Market(Q(100, 1), Q(3, 100), Q(0, 1), Q(1, 4)),
   Market(Q(100, 1), Q(3, 100), Q(2, 5), Q(0, 1))}
\* the notebook's strike, and an invalid one
StrikeSet == {Q(105, 1), Q(0, 1)}
\* values a standard normal draw may take
ZValues == <<Q(1, 2), Q(-1, 1), Q(0, 1), Q(3, 2)>>
ZSet == {ZValues[i] : i \in 1..Len(ZValues)}
\* sequences over S of length at most n
SeqsUpTo(S, n) == UNION {[1..k -> S] : k \in 0..n}
\* what bsm may be given as z: one draw, or an array of draws
ZInputs == {Scalar(x) : x \in ZSet} \cup {Array(s) : s \in SeqsUpTo(ZSet, MaxN)}

(***************************************************************************)
(* np.random: the process-wide generator.  Its state steps through a       *)
(* cycle; each draw reads the state and advances it.                       *)
(***************************************************************************)
ZOf(s) == ZValues[(s % Len(ZValues)) + 1]
\* np.random.seed(seed)
SeedState(sd) == sd % RngPeriod
\* np.random.standard_normal(): one draw, a scalar
standard_normal_scalar(s) ==
  [status |-> "returned", val |-> Scalar(ZOf(s)), rng |-> (s + 1) % RngPeriod]
\* a standard_normal that squeezes an array of one draw into a scalar
standard_normal_squeeze(s, n) ==
  IF n < 0
  THEN [status |-> "ValueError", val |-> Array(<<>>), rng |-> s]
  ELSE [status |-> "returned",
        val |-> IF n = 1 THEN Scalar(ZOf(s))
                ELSE Array([i \in 1..n |-> ZOf((s + i - 1) % RngPeriod)]),
        rng |-> (s + n) % RngPeriod]

\* np.random.standard_normal(n): an array of n draws; a negative n raises
standard_normal(s, n) ==
  IF n < 0
  THEN [status |-> "ValueError", val |-> Array(<<>>), rng |-> s]
  ELSE [status |-> "returned",
        val |-> Array([i \in 1..n |-> ZOf((s + i - 1) % RngPeriod)]),
        rng |-> (s + n) % RngPeriod]

(***************************************************************************)
(* The state: the generator, and a record of the calls made.               *)
(***************************************************************************)
VARIABLES
  rng,    \* the state of np.random's generator
  seed,   \* the seed it was last given; -1 before any
  fresh,  \* no draw was made since the generator was seeded
  call,   \* the operation last called, its arguments, the generator's state then
  ret,    \* how that call ended, and the value it returned
  ref,    \* the first simulation made directly after a seeding
  again   \* the generator was seeded again after that simulation

vars == <<rng, seed, fresh, call, ret, ref, again>>

NoMarket == Market(Zero, Zero, Zero, Zero)
NoValue == Array(<<>>)
\* Python's None
NoneValue == [shape |-> "none", v |-> <<>>]
NoArgs ==
  [op |-> "none", m |-> NoMarket, k |-> Zero, n |-> 0, z |-> NoValue, rng0 |-> 0,
   fresh0 |-> FALSE]
NoRet == [status |-> "none", val |-> NoValue]
NoRef == [seed |-> -1, m |-> NoMarket, n |-> 0, out |-> NoRet]

\* the generator starts in a state nobody chose
Init ==
  /\ rng \in 0..(RngPeriod - 1)
  /\ seed = -1
  /\ fresh = FALSE
  /\ call = NoArgs
  /\ ret = NoRet
  /\ ref = NoRef
  /\ again = FALSE

\* np.random.seed(sd), as a test that fixes the seed calls it
Seed(sd) ==
  /\ rng' = SeedState(sd)
  /\ seed' = sd
  /\ fresh' = TRUE
  /\ call' = [NoArgs EXCEPT !.op = "seed", !.n = sd, !.rng0 = rng]
  /\ ret' = [status |-> "returned", val |-> NoValue]
  /\ again' = (ref # NoRef)
  /\ UNCHANGED ref

\* a bsm that draws from the generator itself instead of using z
Bsm_draws(m, z) ==
  LET d == standard_normal(rng, Len(z.v))
  IN  /\ call' = [NoArgs EXCEPT !.op = "bsm", !.m = m, !.z = z, !.rng0 = rng]
      /\ ret' = [status |-> "returned", val |-> bsm(m.s_0, m.r, m.sigma, m.t, d.val)]
      /\ rng' = d.rng
      /\ UNCHANGED <<seed, fresh, ref, again>>

\* bsm(s_0, r, sigma, t, z) on draws the caller supplies
Bsm(m, z) ==
  /\ call' = [NoArgs EXCEPT !.op = "bsm", !.m = m, !.z = z, !.rng0 = rng]
  /\ ret' = [status |-> "returned", val |-> bsm(m.s_0, m.r, m.sigma, m.t, z)]
  /\ UNCHANGED <<rng, seed, fresh, ref, again>>

\* a simulation that reads the sample count the previous simulation left in
\* the notebook's global n instead of its own
Simulate_stale_n(m, n) ==
  LET used == IF call.op = "simulate" THEN call.n ELSE n
      d == standard_normal(rng, used)
      out == IF d.status = "returned"
             THEN [status |-> "returned", val |-> bsm(m.s_0, m.r, m.sigma, m.t, d.val)]
             ELSE [status |-> d.status, val |-> NoValue]
  IN  /\ rng' = d.rng
      /\ call' = [NoArgs EXCEPT !.op = "simulate", !.m = m, !.n = n, !.z = d.val,
                                !.rng0 = rng, !.fresh0 = fresh]
      /\ ret' = out
      /\ fresh' = FALSE
      /\ ref' = IF fresh /\ ref = NoRef
                THEN [seed |-> seed, m |-> m, n |-> n, out |-> out]
                ELSE ref
      /\ UNCHANGED <<seed, again>>

\* bsm(s_0, r, sigma, t, np.random.standard_normal(n)): simulate_terminal_prices
Simulate(m, n) ==
  LET d == standard_normal(rng, n)
      out == IF d.status = "returned"
             THEN [status |-> "returned", val |-> bsm(m.s_0, m.r, m.sigma, m.t, d.val)]
             ELSE [status |-> d.status, val |-> NoValue]
  IN  /\ rng' = d.rng
      /\ call' = [NoArgs EXCEPT !.op = "simulate", !.m = m, !.n = n, !.z = d.val,
                                !.rng0 = rng, !.fresh0 = fresh]
      /\ ret' = out
      /\ fresh' = FALSE
      /\ ref' = IF fresh /\ ref = NoRef
                THEN [seed |-> seed, m |-> m, n |-> n, out |-> out]
                ELSE ref
      /\ UNCHANGED <<seed, again>>

\* print bsm(100, 0.03, 0.4, 3.0/12, np.random.standard_normal()): one scalar draw
SimulateOne(m) ==
  LET d == standard_normal_scalar(rng)
  IN  /\ rng' = d.rng
      /\ call' = [NoArgs EXCEPT !.op = "simulate_one", !.m = m, !.z = d.val, !.rng0 = rng]
      /\ ret' = [status |-> "returned",
                 val |-> bsm_scalar(m.s_0, m.r, m.sigma, m.t, d.val)]
      /\ fresh' = FALSE
      /\ UNCHANGED <<seed, ref, again>>

\* The cell under "estimating option price" is empty: it binds no name, and
\* a call of the estimator finds none.
MonteCarloCallPrice(m, k, n) ==
  /\ call' = [NoArgs EXCEPT !.op = "monte_carlo_call_price", !.m = m, !.k = k, !.n = n,
                            !.rng0 = rng]
  /\ ret' = [status |-> "NameError", val |-> NoValue]
  /\ UNCHANGED <<rng, seed, fresh, ref, again>>

\* def call(s, r, sigma, t, k): ??
\* The body is a placeholder.  Python refuses the cell, and call is then not
\* defined; IPython reads the line as its help command, and call then
\* returns None.
CallOutcomes ==
  {[status |-> "NameError", val |-> NoValue], [status |-> "returned", val |-> NoneValue]}

Call(m, k, out) ==
  /\ out \in CallOutcomes
  /\ call' = [NoArgs EXCEPT !.op = "call", !.m = m, !.k = k, !.rng0 = rng]
  /\ ret' = out
  /\ UNCHANGED <<rng, seed, fresh, ref, again>>

(***************************************************************************)
(* What the notebook's text says the two missing pieces compute.  The      *)
(* values are kept as expressions.                                         *)
(***************************************************************************)
\* "The present value of the average option value at maturity":
\* exp(disc) * (1/n) * the sum of max(s - k, 0) over the payoffs
DiscountedMeanPayoff(prices, k, r, t) ==
  [disc |-> RNeg(RMul(r, t)),
   n |-> Len(prices),
   payoffs |-> [i \in 1..Len(prices) |-> [s |-> prices[i], k |-> k]]]

\* d1 = (ln(S/K) + (r + sigma^2/2)*t) / (sigma*sqrt(t)), as a*ln(q) + b
D1(s, r, sigma, t, k) ==
  LET vol == RMul(sigma, RSqrt(t))
  IN  [a |-> RDiv(One, vol),
       q |-> RDiv(s, k),
       b |-> RDiv(RMul(RAdd(r, RDiv(RMul(sigma, sigma), [n |-> 2, d |-> 1])), t), vol)]

\* d2 = d1 - sigma*sqrt(t)
D2(s, r, sigma, t, k) ==
  [D1(s, r, sigma, t, k) EXCEPT !.b = RSub(@, RMul(sigma, RSqrt(t)))]

\* C = Phi(d1)*S - Phi(d2)*K*exp(-r*t), as the terms c * exp(e) * Phi(phi)
ClosedFormPrice(s, r, sigma, t, k) ==
  {[c |-> s, e |-> Zero, phi |-> D1(s, r, sigma, t, k)],
   [c |-> RNeg(k), e |-> RNeg(RMul(r, t)), phi |-> D2(s, r, sigma, t, k)]}

(***************************************************************************)
(* The interactive histogram.  interact builds one slider per argument     *)
(* from (min, max, step) and calls plot_histogram with the sliders' values *)
(* when it is shown and whenever a slider is moved.  The sliders move      *)
(* independently, so every combination of their positions is called.       *)
(***************************************************************************)
\* the positions of a slider the model takes: its lowest, the next, its highest
Slider(min, max, step) == {min, RAdd(min, step), max}
\* r=(0.0, 0.2, 0.01)
RSlider == Slider(Q(0, 1), Q(1, 5), Q(1, 100))
\* a volatility slider that starts at 0
SigmaSlider_from_zero == Slider(Q(0, 1), Q(1, 1), Q(1, 100))
\* sigma=(0.01, 1.0, 0.01)
SigmaSlider == Slider(Q(1, 100), Q(1, 1), Q(1, 100))
\* t=(0.01, 2, 0.01)
TSlider == Slider(Q(1, 100), Q(2, 1), Q(1, 100))
\* n = 1000: the sample count of a histogram
HistogramN == 1000

\* plot_histogram(r, sigma, t): draws n prices from bsm with the spot 100,
\* hands them to the plot and returns nothing.  The n draws advance the
\* generator as in standard_normal; the prices are not kept.
PlotHistogram(r, sigma, t) ==
  LET n == HistogramN
  IN  /\ rng' = (rng + n) % RngPeriod
      /\ call' = [NoArgs EXCEPT !.op = "plot_histogram",
                                !.m = Market(Q(100, 1), r, sigma, t), !.n = n,
                                !.rng0 = rng, !.fresh0 = fresh]
      /\ ret' = [status |-> "returned", val |-> NoneValue]
      /\ fresh' = FALSE
      /\ UNCHANGED <<seed, ref, again>>

\* n = 1000000: the sample count of the notebook's large simulation
NotebookN == 1000000
\* the sample counts the estimator is called with
EstimatorCounts == (0..MaxN) \cup {NotebookN}

\* the draws the caller of bsm supplies in the main specification
FewZ == {Scalar(Q(1, 2)), Array(<<Q(3, 2), Q(-1, 1)>>)}

Next ==
  \/ \E sd \in 0..MaxSeed : Seed(sd)
  \/ \E m \in FewMarkets, z \in FewZ : Bsm(m, z)
  \/ \E m \in FewMarkets, n \in -1..MaxN : Simulate(m, n)
  \/ \E m \in FewMarkets : SimulateOne(m)
  \/ \E m \in FewMarkets, k \in StrikeSet, n \in EstimatorCounts :
        MonteCarloCallPrice(m, k, n)
  \/ \E m \in FewMarkets \cup FlatMarkets, k \in StrikeSet, out \in CallOutcomes :
        Call(m, k, out)
  \/ \E r \in RSlider, sigma \in SigmaSlider, t \in TSlider : PlotHistogram(r, sigma, t)

Spec == Init /\ [][Next]_vars

(***************************************************************************)
(* The market model alone, as a function: the initial state holds the      *)
(* arguments, any combination of the parameters and any draws, and the one *)
(* step applies bsm to them.                                               *)
(***************************************************************************)
InitBsm ==
  /\ rng = 0
  /\ seed = -1
  /\ fresh = FALSE
  /\ call \in {[NoArgs EXCEPT !.op = "input", !.m = m, !.z = z] :
                 m \in MarketSet, z \in ZInputs}
  /\ ret = NoRet
  /\ ref = NoRef
  /\ again = FALSE

NextBsm == call.op = "input" /\ Bsm(call.m, call.z)

SpecBsm == InitBsm /\ [][NextBsm]_vars

(***************************************************************************)
(* Properties.                                                             *)
(***************************************************************************)
Two == [n |-> 2, d |-> 1]
Positive(q) == RLt(Zero, q)
\* spot, volatility and maturity are positive
ValidMarket(m) == Positive(m.s_0) /\ Positive(m.sigma) /\ Positive(m.t)

\* S0 * exp((r - sigma^2/2)*t + sigma*sqrt(t)*z), term by term
GbmPrice(m, zi) ==
  XScale(m.s_0,
         XExp(RAdd(RSub(RMul(m.r, m.t), RDiv(RMul(RMul(m.sigma, m.sigma), m.t), Two)),
                   RMul(RMul(RSqrt(m.t), zi), m.sigma))))

\* C1: with a positive spot, volatility and maturity, bsm returns for each
\* element i of z exactly S0 * exp((r - sigma^2/2)*t + sigma*sqrt(t)*z[i]).
C1_BsmIsGbmFormula ==
  (call.op = "bsm" /\ ValidMarket(call.m)) =>
     /\ ret.status = "returned"
     /\ Len(ret.val.v) = Len(call.z.v)
     /\ \A i \in 1..Len(call.z.v) : ret.val.v[i] = GbmPrice(call.m, call.z.v[i])

\* bsm was given two different draws under the notebook's parameters and
\* returned two different prices
C1_Witness ==
  /\ call.op = "bsm"
  /\ call.m = Market(Q(100, 1), Q(3, 100), Q(2, 5), Q(1, 4))
  /\ call.z = Array(<<Q(1, 2), Q(-1, 1)>>)
  /\ ret.val.v = <<{[c |-> Q(100, 1), e |-> Q(7, 80)]}, {[c |-> Q(100, 1), e |-> Q(-17, 80)]}>>

\* C2: a non-positive spot, volatility or maturity, or a sample count below
\* one, makes every public operation raise InvalidParameter.
C2_InvalidParameterRaises ==
  (/\ call.op \in {"bsm", "simulate", "monte_carlo_call_price", "call"}
   /\ \/ ~ValidMarket(call.m)
      \/ call.op \in {"monte_carlo_call_price", "call"} /\ ~Positive(call.k)
      \/ call.op \in {"simulate", "monte_carlo_call_price"} /\ call.n < 1)
    => ret.status = "InvalidParameter"

\* C3: for n >= 1 the simulator returns an array of exactly n prices, one
\* per standard normal draw: for n = 1 an array of one price, not a scalar.
C3_SimulateReturnsNPrices ==
  (call.op = "simulate" /\ call.n >= 1) =>
     /\ ret.status = "returned"
     /\ ret.val.shape = "array"
     /\ Len(ret.val.v) = call.n
     /\ Len(call.z.v) = call.n
     /\ \A i \in 1..call.n :
          /\ call.z.v[i] = ZOf((call.rng0 + i - 1) % RngPeriod)
          /\ ret.val.v[i] = bsm(call.m.s_0, call.m.r, call.m.sigma, call.m.t,
                                Scalar(call.z.v[i])).v[1]

\* a simulation with n = 1 returned an array holding one price
C3_Witness ==
  /\ call.op = "simulate"
  /\ call.n = 1
  /\ ret.status = "returned"
  /\ ret.val.shape = "array"
  /\ Len(ret.val.v) = 1
  /\ ret.val.v[1] # {}

\* a strike, a sample count and market parameters the specification accepts
ValidOption(c) ==
  /\ ValidMarket(c.m)
  /\ Positive(c.k)
  /\ c.op = "monte_carlo_call_price" => c.n >= 1

\* the prices a simulation of n draws returns when the generator is in state s
SimulatedPrices(m, n, s) == bsm(m.s_0, m.r, m.sigma, m.t, standard_normal(s, n).val).v

\* C4: from n >= 1 simulated prices, the estimator returns
\* exp(-r*t) * (1/n) * sum of max(S[i] - K, 0).
C4_EstimatorIsDiscountedMeanPayoff ==
  (call.op = "monte_carlo_call_price" /\ ValidOption(call)) =>
     /\ ret.status = "returned"
     /\ ret.val.shape = "scalar"
     /\ ret.val.v[1] = DiscountedMeanPayoff(SimulatedPrices(call.m, call.n, call.rng0),
                                            call.k, call.m.r, call.m.t)

\* C5: call(s, r, sigma, t, k) returns Phi(d1)*S0 - Phi(d2)*K*exp(-r*t).
C5_CallIsClosedForm ==
  (call.op = "call" /\ ValidOption(call)) =>
     /\ ret.status = "returned"
     /\ ret.val.shape = "scalar"
     /\ ret.val.v[1] = ClosedFormPrice(call.m.s_0, call.m.r, call.m.sigma, call.m.t, call.k)

\* the value is a number and is not negative: None is no number, and a sum
\* of exponentials is not negative when none of its coefficients is
NonNegativeNumber(val) ==
  /\ val.shape = "scalar"
  /\ ~XIsNaN(val.v[1])
  /\ \A x \in val.v[1] : x.c.n >= 0

\* C6: with valid parameters the estimator and the closed-form evaluator
\* both return a value that is at least 0.
C6_PricesAreNonNegative ==
  (call.op \in {"monte_carlo_call_price", "call"} /\ ValidOption(call)) =>
     /\ ret.status = "returned"
     /\ NonNegativeNumber(ret.val)

\* C7: call with sigma = 0 or t = 0 raises NumericDomainError or
\* InvalidParameter, and so returns nothing.
C7_FlatMarketRaises ==
  (call.op = "call" /\ (call.m.sigma = Zero \/ call.m.t = Zero)) =>
     ret.status \in {"NumericDomainError", "InvalidParameter"}

\* the simulation last made has the parameters and sample count of the first
\* one made after a seeding
SameAsRef == call.op = "simulate" /\ ref # NoRef /\ call.m = ref.m /\ call.n = ref.n

C10_NoCallChangesGenerator ==
  call.op \in {"bsm", "simulate", "simulate_one", "monte_carlo_call_price", "call"}
    => rng = call.rng0

\* C10, amended: bsm, the estimator and the closed-form evaluator leave the
\* generator as it was, and a simulation advances it by the draws it made.
C10_OnlyDrawsAdvanceGenerator ==
  /\ call.op = "bsm" => rng = call.rng0
  /\ (call.op = "simulate" /\ ret.status = "returned")
       => rng = (call.rng0 + call.n) % RngPeriod
  /\ (call.op = "simulate" /\ ret.status # "returned") => rng = call.rng0
  /\ call.op = "simulate_one" => rng = (call.rng0 + 1) % RngPeriod
  /\ call.op \in {"monte_carlo_call_price", "call"} => rng = call.rng0

\* bsm was called on an array of draws after the generator was seeded, and
\* the generator is in the state the seed set
C10_Witness ==
  /\ call.op = "bsm"
  /\ Len(call.z.v) = 2
  /\ ret.status = "returned"
  /\ fresh
  /\ rng = SeedState(seed)
  /\ rng = call.rng0

\* C11: with n = 1 the estimator raises nothing and returns a number, the
\* value the general formula gives for one price: the one discounted payoff,
\* which is not negative.
C11_EstimatorToleratesOne ==
  (call.op = "monte_carlo_call_price" /\ ValidOption(call) /\ call.n = 1) =>
     /\ ret.status = "returned"
     /\ ret.val.shape = "scalar"
     /\ LET v == ret.val.v[1]
        IN  /\ v = DiscountedMeanPayoff(SimulatedPrices(call.m, 1, call.rng0),
                                        call.k, call.m.r, call.m.t)
            /\ v.n = 1
            /\ Len(v.payoffs) = 1

\* the value is one float: a scalar without NaN whose terms have exponent 0
IsFloat(val) ==
  /\ val.shape = "scalar"
  /\ ~XIsNaN(val.v[1])
  /\ \A x \in val.v[1] : x.e = Zero
\* the float such a value holds; the empty set of terms is 0
FloatOf(val) == IF val.v[1] = {} THEN Zero ELSE (CHOOSE x \in val.v[1] : TRUE).c
\* a <= b, for two values that are floats
FloatLe(a, b) == IsFloat(a) /\ IsFloat(b) /\ ~RLt(FloatOf(b), FloatOf(a))

\* m2 is m with a volatility at least as large, or with a spot at least as large
RaisedMarket(m, m2) ==
  \/ m2 = [m EXCEPT !.sigma = m2.sigma] /\ ~RLt(m2.sigma, m.sigma)
  \/ m2 = [m EXCEPT !.s_0 = m2.s_0] /\ ~RLt(m2.s_0, m.s_0)

\* C12: the price call returns does not fall when the volatility or the spot
\* is raised and the other parameters are kept: the call made returns a
\* price, and every such second call returns a price at least as large.
C12_CallIsMonotone ==
  (call.op = "call" /\ ValidOption(call)) =>
     /\ ret.status = "returned"
     /\ \A m2 \in MarketSet, out \in CallOutcomes :
          (ValidMarket(m2) /\ RaisedMarket(call.m, m2) /\ out.status = ret.status)
            => FloatLe(ret.val, out.val)

\* the parameters and the strike the notebook prices with
NotebookMarket == Market(Q(100, 1), Q(3, 100), Q(2, 5), Q(1, 4))
NotebookStrike == Q(105, 1)
\* |a - b| <= tol, for two values that are floats
FloatNear(a, b, tol) ==
  /\ IsFloat(a)
  /\ IsFloat(b)
  /\ ~RLt(tol, RSub(FloatOf(a), FloatOf(b)))
  /\ ~RLt(tol, RSub(FloatOf(b), FloatOf(a)))

\* C13: for S0 = 100, r = 0.03, sigma = 0.4, t = 0.25, K = 105 and
\* n = 1000000 the estimator returns an estimate, call returns the
\* closed-form price, and the two differ by at most 0.5.
C13_EstimateNearClosedForm ==
  (/\ call.op = "monte_carlo_call_price"
   /\ call.m = NotebookMarket
   /\ call.k = NotebookStrike
   /\ call.n = NotebookN) =>
     /\ ret.status = "returned"
     /\ \A out \in CallOutcomes :
          out.status = "returned" /\ FloatNear(ret.val, out.val, Half)

\* the orders in which n contributions can arrive
Orders(n) == {p \in [1..n -> 1..n] : \A i, j \in 1..n : p[i] = p[j] => i = j}
\* the sequence sq taken in the order p
Permuted(sq, p) == [i \in 1..Len(sq) |-> sq[p[i]]]
\* how often the summand x occurs in a discounted mean
Occurrences(a, x) == Cardinality({i \in 1..Len(a.payoffs) : a.payoffs[i] = x})
\* two discounted means are the same real: the same discount and count, and
\* the same summands, in whatever order
SameMean(a, b) ==
  /\ a.disc = b.disc
  /\ a.n = b.n
  /\ \A x \in {a.payoffs[i] : i \in 1..Len(a.payoffs)}
               \cup {b.payoffs[i] : i \in 1..Len(b.payoffs)} :
        Occurrences(a, x) = Occurrences(b, x)

\* C15: the estimator returns one value V, and V is the discounted mean
\* payoff of the simulated prices taken in every order.
C15_EstimateIsOrderFree ==
  (call.op = "monte_carlo_call_price" /\ ValidOption(call) /\ call.n = MaxN) =>
     /\ ret.status = "returned"
     /\ ret.val.shape = "scalar"
     /\ \A p \in Orders(call.n) :
          SameMean(ret.val.v[1],
                   DiscountedMeanPayoff(
                     Permuted(SimulatedPrices(call.m, call.n, call.rng0), p),
                     call.k, call.m.r, call.m.t))

\* the value is a positive real: c * e^x with c > 0
StrictlyPositive(x) == x # {} /\ ~XIsNaN(x) /\ \A m \in x : m.c.n > 0
\* the argument bsm gives to np.exp for one draw
Exponent(m, zi) ==
  RAdd(RMul(RSub(m.r, RMul(RMul(Half, m.sigma), m.sigma)), m.t),
       RMul(RMul(m.sigma, RSqrt(m.t)), zi))
\* a positive spot, a maturity that is not negative, any rate and volatility
PositiveSpot(m) == Positive(m.s_0) /\ ~RLt(m.t, Zero)

Between(x, lo, hi) == ~IsNaN(x) /\ ~RLt(x, lo) /\ ~RLt(hi, x)

\* C17: plot_histogram calls bsm only with the spot 100, 1000 draws, r in
\* [0, 0.2], sigma in [0.01, 1] and t in [0.01, 2]: never with a volatility
\* or a maturity that is not positive, or with fewer than one draw.
C17_HistogramStaysInRange ==
  call.op = "plot_histogram" =>
     /\ call.m.s_0 = Q(100, 1)
     /\ call.n = 1000
     /\ Between(call.m.r, Q(0, 1), Q(1, 5))
     /\ Between(call.m.sigma, Q(1, 100), Q(1, 1))
     /\ Between(call.m.t, Q(1, 100), Q(2, 1))
     /\ Positive(call.m.sigma)
     /\ Positive(call.m.t)
     /\ call.n >= 1
     /\ rng = (call.rng0 + call.n) % RngPeriod

\* the histogram was drawn with every slider at its lowest position, after
\* another call
C17_Witness ==
  /\ call.op = "plot_histogram"
  /\ call.m = Market(Q(100, 1), Q(0, 1), Q(1, 100), Q(1, 100))
  /\ call.n = 1000
  /\ ret.status = "returned"
  /\ seed # -1

====
